---------------------------- MODULE Spec2Model ----------------------------
(***************************************************************************)
(* Model of package version of storj.io/private (src/unnamed/part_001):    *)
(* the rollout cursor type RolloutBytes and its JSON codec, the two        *)
(* percentage-to-cursor mappings, the rollout gate isRolloutCandidate and  *)
(* the update decision ShouldUpdateVersion, and the SemVer text form.      *)
(*                                                                         *)
(* Every operation of the package is a function of its arguments (and, for *)
(* UnmarshalJSON, of the receiver it writes into).  Each specification     *)
(* below draws the arguments in its initial states and applies the         *)
(* operations to them:                                                     *)
(*   Spec        ShouldUpdateVersion, ShouldUpdate                         *)
(*   SpecCursor  PercentageToCursorF, PercentageToCursor                   *)
(*   SpecCodec   RolloutBytes.MarshalJSON, RolloutBytes.UnmarshalJSON      *)
(*   SpecFormat  SemVer.String, NewSemVer                                  *)
(*                                                                         *)
(* Text (Go string / []byte of characters) is a sequence of one-character  *)
(* strings; a byte array is a sequence of numbers 0..255.                  *)
(***************************************************************************)
EXTENDS Integers, Sequences, FiniteSets, TLC

VARIABLES
    \* ---- Spec: the update decision
    currentVersion,   \* argument currentVersion SemVer
    nodeID,           \* argument nodeID storj.NodeID
    requested,        \* argument requested Process
    hmacSum,          \* HMAC-SHA256 on the points the run queries: <<seed, nodeID>> -> digest
    updateVersion,    \* result updateVersion Version of ShouldUpdateVersion
    reason,           \* result reason string
    err,              \* result err ("" is nil)
    returned,         \* whether ShouldUpdateVersion has returned
    candidates,       \* the results of the calls of ShouldUpdate so far
    \* ---- SpecCursor: the percentage mappings
    pct,              \* the two percentages the mappings are applied to
    cursor,           \* the two cursors returned
    mapped,           \* which mapping has been applied ("" before the call)
    \* ---- SpecCodec: the JSON codec
    rb,               \* the receiver of UnmarshalJSON, a RolloutBytes
    value,            \* the RolloutBytes that MarshalJSON is called on
    encoded,          \* what MarshalJSON returned (<<>> before the call)
    b,                \* the argument of the last UnmarshalJSON
    decodeErr,        \* the error of the last UnmarshalJSON ("" is nil)
    panicked,         \* the last UnmarshalJSON panicked instead of returning
    stage,            \* "start", "marshalled", "unmarshalled"
    \* ---- SpecFormat: SemVer.String and NewSemVer
    receiver,         \* the SemVer that String is called on
    formatted,        \* what String returned (<<>> before the call)
    reparsed,         \* the SemVer that NewSemVer(formatted) returned
    reparseErr,       \* the error that NewSemVer(formatted) returned ("" is nil)
    phase             \* "start", "formatted", "reparsed"

decisionVars == <<currentVersion, nodeID, requested, hmacSum, updateVersion,
                  reason, err, returned, candidates>>
cursorVars == <<pct, cursor, mapped>>
codecVars == <<rb, value, encoded, b, decodeErr, panicked, stage>>
formatVars == <<receiver, formatted, reparsed, reparseErr, phase>>
vars == <<decisionVars, cursorVars, codecVars, formatVars>>

---------------------------------------------------------------------------
(* Bytes and byte arrays *)

\* type RolloutBytes [32]byte
RolloutLen == 32

\* const quote = byte('"')
quote == "\""

\* RolloutBytes{}: the zero value of the array.
zeroRolloutBytes == [i \in 1..RolloutLen |-> 0]

\* maxBytes after the loop  for i := 0; i < len(maxBytes); i++ { maxBytes[i] = 255 }
maxBytes == [i \in 1..RolloutLen |-> 255]

\* bytes.Compare(x, y): -1, 0, +1 by the lexicographic order of the bytes.
RECURSIVE bytesCompareFrom(_, _, _)
bytesCompareFrom(x, y, i) ==
    IF i > Len(x) /\ i > Len(y) THEN 0
    ELSE IF i > Len(x) THEN -1
    ELSE IF i > Len(y) THEN 1
    ELSE IF x[i] < y[i] THEN -1
    ELSE IF x[i] > y[i] THEN 1
    ELSE bytesCompareFrom(x, y, i + 1)

bytesCompare(x, y) == bytesCompareFrom(x, y, 1)

\* bytes.Equal(x, y)
bytesEqual(x, y) == Len(x) = Len(y) /\ \A i \in 1..Len(x) : x[i] = y[i]

\* The builtin copy(dst, src): the first min(len(dst), len(src)) elements of
\* src overwrite the FIRST elements of dst; the rest of dst is kept.
copy(dst, src) ==
    [i \in 1..Len(dst) |-> IF i <= Len(src) THEN src[i] ELSE dst[i]]

---------------------------------------------------------------------------
(* encoding/hex, as RolloutBytes uses it *)

\* hex.Encode's table "0123456789abcdef"
hextable == <<"0", "1", "2", "3", "4", "5", "6", "7",
              "8", "9", "a", "b", "c", "d", "e", "f">>

\* hex.fromHexChar: the value of a hex digit of either case, -1 when c is none.
fromHexChar(c) ==
    CASE c = "0" -> 0  [] c = "1" -> 1  [] c = "2" -> 2  [] c = "3" -> 3
      [] c = "4" -> 4  [] c = "5" -> 5  [] c = "6" -> 6  [] c = "7" -> 7
      [] c = "8" -> 8  [] c = "9" -> 9
      [] c = "a" -> 10 [] c = "b" -> 11 [] c = "c" -> 12
      [] c = "d" -> 13 [] c = "e" -> 14 [] c = "f" -> 15
      [] c = "A" -> 10 [] c = "B" -> 11 [] c = "C" -> 12
      [] c = "D" -> 13 [] c = "E" -> 14 [] c = "F" -> 15
      [] OTHER -> -1

\* hex.Encode(dst, src): two lower-case digits per byte.
RECURSIVE hexEncode(_)
hexEncode(src) ==
    IF src = <<>> THEN <<>>
    ELSE <<hextable[(Head(src) \div 16) + 1], hextable[(Head(src) % 16) + 1]>>
         \o hexEncode(Tail(src))

\* hex.Decode(dst, src), the loop from pair number i (0-based, as in Go).
\* Returns the array written so far and how the call ends:
\*   err = ""  the call returns nil; otherwise the error it returns;
\*   panic     the store dst[i] was out of range.
\* Each pair is checked before it is stored, and the trailing odd character
\* is looked at only after the loop.
RECURSIVE hexDecodeFrom(_, _, _)
hexDecodeFrom(dst, src, i) ==
    LET j == 2 * i + 1 IN      \* Go's j, which indexes src from 0
    IF j < Len(src) THEN
        LET hi == fromHexChar(src[j])          \* src[j-1] in Go
            lo == fromHexChar(src[j + 1])      \* src[j] in Go
        IN  IF hi < 0 \/ lo < 0
            THEN [dst |-> dst, err |-> "encoding/hex: invalid byte", panic |-> FALSE]
            ELSE IF i >= Len(dst)
            THEN [dst |-> dst, err |-> "", panic |-> TRUE]
            ELSE hexDecodeFrom([dst EXCEPT ![i + 1] = hi * 16 + lo], src, i + 1)
    ELSE IF Len(src) % 2 = 1 THEN
        IF fromHexChar(src[j]) < 0
        THEN [dst |-> dst, err |-> "encoding/hex: invalid byte", panic |-> FALSE]
        ELSE [dst |-> dst, err |-> "encoding/hex: odd length hex string", panic |-> FALSE]
    ELSE [dst |-> dst, err |-> "", panic |-> FALSE]

hexDecode(dst, src) == hexDecodeFrom(dst, src, 0)

---------------------------------------------------------------------------
(* RolloutBytes JSON codec *)

\* func (rb RolloutBytes) MarshalJSON() ([]byte, error)
MarshalJSON(r) ==
    IF bytesEqual(r, zeroRolloutBytes)
    THEN <<quote, quote>>
    ELSE <<quote>> \o hexEncode(r) \o <<quote>>

\* func (rb *RolloutBytes) UnmarshalJSON(b []byte) error, on a receiver that
\* holds r.  The slice expression b[1:len(b)-1] panics when len(b) < 2; the
\* decoder writes straight into the receiver's array.
UnmarshalJSON(r, txt) ==
    IF Len(txt) < 2
    THEN [dst |-> r, err |-> "", panic |-> TRUE]
    ELSE LET d == hexDecode(r, SubSeq(txt, 2, Len(txt) - 1))
         IN  IF d.err # "" THEN [d EXCEPT !.err = "version: " \o d.err] ELSE d

---------------------------------------------------------------------------
(* math/big, as the percentage mappings use it.  A big.Int is a sign and   *)
(* a magnitude; the magnitude is a sequence of bytes, most significant     *)
(* first, without leading zero bytes (what Bytes() returns).  The second   *)
(* operand of Mul and Div is always a big.NewInt of an int64 here and is   *)
(* passed as a number.                                                     *)

RECURSIVE natNorm(_)
natNorm(ds) ==
    IF ds # <<>> /\ Head(ds) = 0 THEN natNorm(Tail(ds)) ELSE ds

\* The magnitude ds times k (k >= 0) plus carry.
RECURSIVE natMulAdd(_, _, _)
natMulAdd(ds, k, carry) ==
    IF ds = <<>>
    THEN IF carry = 0 THEN <<>> ELSE natMulAdd(<<>>, k, carry \div 256) \o <<carry % 256>>
    ELSE LET t == ds[Len(ds)] * k + carry
         IN  natMulAdd(SubSeq(ds, 1, Len(ds) - 1), k, t \div 256) \o <<t % 256>>

\* Long division of the magnitude ds by k > 0, entered with remainder rem:
\* the quotient's digits (one per digit of ds) and the final remainder.
RECURSIVE natDivRem(_, _, _)
natDivRem(ds, k, rem) ==
    IF ds = <<>> THEN [quo |-> <<>>, rem |-> rem]
    ELSE LET t == rem * 256 + Head(ds)
             rest == natDivRem(Tail(ds), k, t % k)
         IN  [quo |-> <<t \div k>> \o rest.quo, rem |-> rest.rem]

Abs(n) == IF n < 0 THEN -n ELSE n

\* (*big.Int).SetBytes(buf): buf as a big-endian unsigned integer.
bigSetBytes(buf) == [neg |-> FALSE, abs |-> natNorm(buf)]

\* (*big.Int).Mul(x, big.NewInt(k))
bigMul(x, k) ==
    LET m == natNorm(natMulAdd(x.abs, Abs(k), 0))
    IN  [neg |-> m # <<>> /\ (x.neg # (k < 0)), abs |-> m]

\* (*big.Int).Div(x, big.NewInt(k)), k > 0: Euclidean division, so the
\* quotient of a negative x with a remainder is one further from zero.
bigDiv(x, k) ==
    LET d == natDivRem(x.abs, k, 0)
        m == IF x.neg /\ d.rem # 0
             THEN natNorm(natMulAdd(d.quo, 1, 1))
             ELSE natNorm(d.quo)
    IN  [neg |-> x.neg /\ m # <<>>, abs |-> m]

\* (*big.Int).Bytes(): the absolute value, big-endian, no leading zeros.
bigBytes(x) == x.abs

---------------------------------------------------------------------------
(* Percentage mappings.  A float64 percentage is held as a whole number of *)
(* units of 0.00001 (five decimal places, one more than the mapping        *)
(* keeps); pct*10000 is taken as the exact product.                        *)

\* int64(pct*10000): the conversion truncates towards zero.
int64Of(u) == IF u >= 0 THEN u \div 10 ELSE -((-u) \div 10)

\* func PercentageToCursorF(pct float64) RolloutBytes
PercentageToCursorF(u) ==
    LET maxInt == bigSetBytes(maxBytes)
        maskInt == bigMul(bigDiv(maxInt, 100 * 10000), int64Of(u))
    IN  copy(zeroRolloutBytes, bigBytes(maskInt))

\* func PercentageToCursor(pct int) RolloutBytes
PercentageToCursor(p) ==
    LET maxInt == bigSetBytes(maxBytes)
        maskInt == bigDiv(bigMul(maxInt, p), 100)
    IN  copy(zeroRolloutBytes, bigBytes(maskInt))

---------------------------------------------------------------------------
(* Text helpers (package strings, strconv) *)

digitChars == <<"0", "1", "2", "3", "4", "5", "6", "7", "8", "9">>

upperChars == <<"A", "B", "C", "D", "E", "F", "G", "H", "I", "J", "K", "L", "M",
                "N", "O", "P", "Q", "R", "S", "T", "U", "V", "W", "X", "Y", "Z">>

lowerChars == <<"a", "b", "c", "d", "e", "f", "g", "h", "i", "j", "k", "l", "m",
                "n", "o", "p", "q", "r", "s", "t", "u", "v", "w", "x", "y", "z">>

\* The characters of the model's texts in the order of their byte values.
asciiOrder == <<"\t", "\n", "\r", " ", "\"", "+", "-", ".">> \o digitChars
              \o upperChars \o lowerChars

ord(c) == CHOOSE i \in 1..Len(asciiOrder) : asciiOrder[i] = c

Range(f) == {f[i] : i \in DOMAIN f}

\* semver's character classes: numbers, and alphanum (letters, digits, '-').
numbers == Range(digitChars)
alphanum == Range(upperChars) \cup Range(lowerChars) \cup numbers \cup {"-"}

whitespace == {" ", "\t", "\n", "\r"}

\* strings.TrimSpace
RECURSIVE TrimSpace(_)
TrimSpace(s) ==
    IF s = <<>> THEN s
    ELSE IF Head(s) \in whitespace THEN TrimSpace(Tail(s))
    ELSE IF s[Len(s)] \in whitespace THEN TrimSpace(SubSeq(s, 1, Len(s) - 1))
    ELSE s

\* strings.TrimPrefix(s, c) for a one-character prefix
TrimPrefix(s, c) == IF s # <<>> /\ Head(s) = c THEN Tail(s) ELSE s

\* strings.IndexRune(s, c), counted from 1; 0 when c does not occur (Go: -1).
IndexRune(s, c) ==
    IF \E i \in 1..Len(s) : s[i] = c
    THEN CHOOSE i \in 1..Len(s) : s[i] = c /\ \A k \in 1..(i - 1) : s[k] # c
    ELSE 0

\* strings.SplitN(s, sep, n) for a one-character sep; n < 0 is strings.Split.
RECURSIVE SplitN(_, _, _)
SplitN(s, sep, n) ==
    LET i == IndexRune(s, sep)
    IN  IF n = 1 \/ i = 0 THEN <<s>>
        ELSE <<SubSeq(s, 1, i - 1)>> \o SplitN(SubSeq(s, i + 1, Len(s)), sep, n - 1)

\* strings.Join(parts, sep)
RECURSIVE Join(_, _)
Join(parts, sep) ==
    IF parts = <<>> THEN <<>>
    ELSE IF Len(parts) = 1 THEN parts[1]
    ELSE parts[1] \o sep \o Join(Tail(parts), sep)

\* strings.ContainsAny(s, chars)
ContainsAny(s, chars) == \E i \in 1..Len(s) : s[i] \in chars

\* semver.containsOnly(s, set): true of the empty string too
containsOnly(s, set) == \A i \in 1..Len(s) : s[i] \in set

\* semver.hasLeadingZeroes
hasLeadingZeroes(s) == Len(s) > 1 /\ s[1] = "0"

\* The value of a string of decimal digits.
RECURSIVE digitsValue(_)
digitsValue(s) ==
    IF s = <<>> THEN 0
    ELSE digitsValue(SubSeq(s, 1, Len(s) - 1)) * 10 + (ord(s[Len(s)]) - ord("0"))

\* strconv.ParseUint(s, 10, 64) of a string of digits: the empty string is a
\* syntax error.  (The numbers of the model's texts are far below 2^64.)
ParseUint(s) ==
    IF s = <<>> THEN [n |-> 0, err |-> "strconv.ParseUint: invalid syntax"]
    ELSE [n |-> digitsValue(s), err |-> ""]

\* Go's comparison of two strings: -1, 0, +1 by the order of their bytes.
RECURSIVE stringCompare(_, _)
stringCompare(x, y) ==
    IF x = <<>> /\ y = <<>> THEN 0
    ELSE IF x = <<>> THEN -1
    ELSE IF y = <<>> THEN 1
    ELSE IF ord(Head(x)) < ord(Head(y)) THEN -1
    ELSE IF ord(Head(x)) > ord(Head(y)) THEN 1
    ELSE stringCompare(Tail(x), Tail(y))

---------------------------------------------------------------------------
(* github.com/blang/semver, as SemVer uses it.  type SemVer struct          *)
(* { semver.Version }: a SemVer is the embedded Version.                   *)

\* semver.Version{} and SemVer{}
zeroSemVer == [Major |-> 0, Minor |-> 0, Patch |-> 0, Pre |-> <<>>, Build |-> <<>>]

semverFail(msg) == [ver |-> zeroSemVer, err |-> msg]

\* semver.NewPRVersion(s)
NewPRVersion(s) ==
    IF s = <<>> THEN [pr |-> <<>>, err |-> "Prerelease is empty"]
    ELSE IF containsOnly(s, numbers) THEN
        IF hasLeadingZeroes(s)
        THEN [pr |-> <<>>, err |-> "Numeric PreRelease version must not contain leading zeroes"]
        ELSE [pr |-> [VersionStr |-> <<>>, VersionNum |-> ParseUint(s).n, IsNum |-> TRUE],
              err |-> ""]
    ELSE IF containsOnly(s, alphanum)
    THEN [pr |-> [VersionStr |-> s, VersionNum |-> 0, IsNum |-> FALSE], err |-> ""]
    ELSE [pr |-> <<>>, err |-> "Invalid character(s) found in prerelease"]

\* The loop  for _, prstr := range prerelease  of semver.Parse: the parsed
\* identifiers, or the first error.
RECURSIVE parsePrerelease(_)
parsePrerelease(strs) ==
    IF strs = <<>> THEN [pre |-> <<>>, err |-> ""]
    ELSE LET p == NewPRVersion(Head(strs))
         IN  IF p.err # "" THEN [pre |-> <<>>, err |-> p.err]
             ELSE LET rest == parsePrerelease(Tail(strs))
                  IN  IF rest.err # "" THEN rest
                      ELSE [pre |-> <<p.pr>> \o rest.pre, err |-> ""]

\* The loop  for _, str := range build  of semver.Parse: the first error.
buildError(strs) ==
    IF \E i \in 1..Len(strs) : strs[i] = <<>> THEN "Build meta data is empty"
    ELSE IF \E i \in 1..Len(strs) : ~containsOnly(strs[i], alphanum)
    THEN "Invalid character(s) found in build meta data"
    ELSE ""

\* A major, minor or patch number of semver.Parse.
parseNumber(s, what) ==
    IF ~containsOnly(s, numbers)
    THEN [n |-> 0, err |-> "Invalid character(s) found in " \o what \o " number"]
    ELSE IF hasLeadingZeroes(s)
    THEN [n |-> 0, err |-> what \o " number must not contain leading zeroes"]
    ELSE ParseUint(s)

\* The text after the first occurrence of c in s, split at the dots; no parts
\* when c does not occur.  (build = strings.Split(patchStr[buildIndex+1:], "."),
\* and the same for the prerelease.)
partsAfter(s, c) ==
    IF IndexRune(s, c) # 0
    THEN SplitN(SubSeq(s, IndexRune(s, c) + 1, Len(s)), ".", -1)
    ELSE <<>>

\* The text before the first occurrence of c in s; s when c does not occur.
\* (patchStr = patchStr[:buildIndex], and the same for the prerelease.)
textBefore(s, c) ==
    IF IndexRune(s, c) # 0 THEN SubSeq(s, 1, IndexRune(s, c) - 1) ELSE s

\* The end of semver.Parse: the first error in the order the code meets them
\* (major, minor, patch, prerelease, build), or the version.
semverAssemble(major, minor, patch, pre, build) ==
    IF major.err # "" THEN semverFail(major.err)
    ELSE IF minor.err # "" THEN semverFail(minor.err)
    ELSE IF patch.err # "" THEN semverFail(patch.err)
    ELSE IF pre.err # "" THEN semverFail(pre.err)
    ELSE IF buildError(build) # "" THEN semverFail(buildError(build))
    ELSE [ver |-> [Major |-> major.n, Minor |-> minor.n, Patch |-> patch.n,
                   Pre |-> pre.pre, Build |-> build],
          err |-> ""]

\* semver.Parse from the split on: parts = strings.SplitN(s, ".", 3).  The
\* build meta data is cut off the third part first, the prerelease second.
semverParseParts(parts) ==
    IF Len(parts) # 3 THEN semverFail("No Major.Minor.Patch elements found")
    ELSE semverAssemble(
            parseNumber(parts[1], "Major"),
            parseNumber(parts[2], "Minor"),
            parseNumber(textBefore(textBefore(parts[3], "+"), "-"), "Patch"),
            parsePrerelease(partsAfter(textBefore(parts[3], "+"), "-")),
            partsAfter(parts[3], "+"))

\* semver.Parse(s)
semverParse(s) ==
    IF s = <<>> THEN semverFail("Version string empty")
    ELSE semverParseParts(SplitN(s, ".", 3))

\* The short form of semver.ParseTolerant: parts (fewer than three) must not
\* hold '+' or '-' in the last one, and are filled up with "0".
semverParseShort(parts) ==
    IF ContainsAny(parts[Len(parts)], {"+", "-"})
    THEN semverFail("Short version cannot contain PreRelease/Build meta data")
    ELSE semverParse(Join(parts \o [i \in 1..(3 - Len(parts)) |-> <<"0">>], <<".">>))

\* The text semver.ParseTolerant parses: spaces trimmed, one leading v dropped.
tolerantText(s) == TrimPrefix(TrimSpace(s), "v")

\* semver.ParseTolerant(s)
ParseTolerant(s) ==
    IF Len(SplitN(tolerantText(s), ".", 3)) < 3
    THEN semverParseShort(SplitN(tolerantText(s), ".", 3))
    ELSE semverParse(tolerantText(s))

\* semver.PRVersion.Compare
prCompare(v, o) ==
    IF v.IsNum /\ ~o.IsNum THEN -1
    ELSE IF ~v.IsNum /\ o.IsNum THEN 1
    ELSE IF v.IsNum /\ o.IsNum THEN
        IF v.VersionNum = o.VersionNum THEN 0
        ELSE IF v.VersionNum > o.VersionNum THEN 1 ELSE -1
    ELSE stringCompare(v.VersionStr, o.VersionStr)

\* The loop over the prerelease identifiers of semver.Version.Compare and
\* what follows it.
RECURSIVE preCompareFrom(_, _, _)
preCompareFrom(v, o, i) ==
    IF i <= Len(v) /\ i <= Len(o) THEN
        LET comp == prCompare(v[i], o[i])
        IN  IF comp = 0 THEN preCompareFrom(v, o, i + 1)
            ELSE IF comp = 1 THEN 1 ELSE -1
    ELSE IF i > Len(v) /\ i > Len(o) THEN 0
    ELSE IF i > Len(v) THEN -1
    ELSE 1

\* semver.Version.Compare(o)
semverCompare(v, o) ==
    IF v.Major # o.Major THEN (IF v.Major > o.Major THEN 1 ELSE -1)
    ELSE IF v.Minor # o.Minor THEN (IF v.Minor > o.Minor THEN 1 ELSE -1)
    ELSE IF v.Patch # o.Patch THEN (IF v.Patch > o.Patch THEN 1 ELSE -1)
    ELSE IF Len(v.Pre) = 0 /\ Len(o.Pre) = 0 THEN 0
    ELSE IF Len(v.Pre) = 0 /\ Len(o.Pre) > 0 THEN 1
    ELSE IF Len(v.Pre) > 0 /\ Len(o.Pre) = 0 THEN -1
    ELSE preCompareFrom(v.Pre, o.Pre, 1)

---------------------------------------------------------------------------
(* SemVer and Version *)

\* func NewSemVer(v string) (SemVer, error)
NewSemVer(v) ==
    LET p == ParseTolerant(v)
    IN  IF p.err # "" THEN [ver |-> zeroSemVer, err |-> "version: " \o p.err]
        ELSE [ver |-> p.ver, err |-> ""]

\* func (sem *SemVer) Compare(version SemVer) int
Compare(sem, version) == semverCompare(sem, version)

\* func (ver *Version) SemVer() (SemVer, error)
SemVer(ver) == NewSemVer(ver.Version)

\* The verb %d of fmt.Sprintf on a uint64, and strconv.FormatUint(n, 10):
\* the decimal digits of n, most significant first.
RECURSIVE FormatUint(_)
FormatUint(n) ==
    IF n < 10 THEN <<digitChars[n + 1]>>
    ELSE FormatUint(n \div 10) \o <<digitChars[(n % 10) + 1]>>

\* val.String() of a semver.PRVersion: the number in decimal, or the text.
prString(val) == IF val.IsNum THEN FormatUint(val.VersionNum) ELSE val.VersionStr

\* base := fmt.Sprintf("v%d.%d.%d", sem.Major, sem.Minor, sem.Patch)
stringBase(sem) ==
    <<"v">> \o FormatUint(sem.Major) \o <<".">> \o FormatUint(sem.Minor)
            \o <<".">> \o FormatUint(sem.Patch)

\* The loop  for _, val := range sem.Pre { build = build + "-" + val.String() }
RECURSIVE stringBuild(_)
stringBuild(pre) ==
    IF pre = <<>> THEN <<>>
    ELSE <<"-">> \o prString(Head(pre)) \o stringBuild(Tail(pre))

\* func (sem *SemVer) String() (version string)
String(sem) ==
    IF Len(sem.Pre) > 0 THEN stringBase(sem) \o stringBuild(sem.Pre)
    ELSE stringBase(sem)

\* Version{}
emptyVersion == [Version |-> <<>>, URL |-> ""]

---------------------------------------------------------------------------
(* Rollout gate and update decision *)

\* hash.Sum(nil) of hmac.New(sha256.New, seed) after hash.Write(nodeID).
\* HMAC-SHA256 is a fixed function whose values the model does not compute:
\* hmacSum holds its value at the point the run queries, drawn in the
\* initial state and never changed.
hmacSha256(seed, id) == hmacSum[<<seed, id>>]

\* isRolloutCandidate with an exclusive bound (< 0 for <= 0).
isRolloutCandidateExclusive(id, rollout) ==
    bytesCompare(hmacSha256(rollout.Seed, id), rollout.Cursor) < 0

\* func isRolloutCandidate(nodeID storj.NodeID, rollout Rollout) bool
isRolloutCandidate(id, rollout) ==
    bytesCompare(hmacSha256(rollout.Seed, id), rollout.Cursor) <= 0

\* func ShouldUpdate(rollout Rollout, nodeID storj.NodeID) bool
ShouldUpdate(rollout, id) == isRolloutCandidate(id, rollout)

\* The three results ShouldUpdateVersion returns without an error.
upToDate == [updateVersion |-> emptyVersion, reason |-> "Version is up to date", err |-> ""]

belowMinimum(req) ==
    [updateVersion |-> req.Minimum, reason |-> "Version is below minimum allowed", err |-> ""]

rolloutResult(id, req) ==
    IF isRolloutCandidate(id, req.Rollout)
    THEN [updateVersion |-> req.Suggested,
          reason |-> "New version is being rolled out and this node is a candidate",
          err |-> ""]
    ELSE [updateVersion |-> emptyVersion,
          reason |-> "New version is being rolled out but hasn't made it to this node yet",
          err |-> ""]

parseFailed(e) == [updateVersion |-> emptyVersion, reason |-> "", err |-> e]

\* ShouldUpdateVersion with the minimum checked before the suggested version.
ShouldUpdateVersionMinimumFirst(cur, id, req) ==
    IF SemVer(req.Suggested).err # "" THEN parseFailed(SemVer(req.Suggested).err)
    ELSE IF SemVer(req.Minimum).err # "" THEN parseFailed(SemVer(req.Minimum).err)
    ELSE IF Compare(cur, SemVer(req.Minimum).ver) < 0 THEN belowMinimum(req)
    ELSE IF Compare(cur, SemVer(req.Suggested).ver) >= 0 THEN upToDate
    ELSE rolloutResult(id, req)

\* ShouldUpdateVersion with the rollout consulted before the minimum: a node
\* below the minimum that is no candidate is told to wait.
ShouldUpdateVersionGated(cur, id, req) ==
    IF SemVer(req.Suggested).err # "" THEN parseFailed(SemVer(req.Suggested).err)
    ELSE IF Compare(cur, SemVer(req.Suggested).ver) >= 0 THEN upToDate
    ELSE IF SemVer(req.Minimum).err # "" THEN parseFailed(SemVer(req.Minimum).err)
    ELSE IF ~isRolloutCandidate(id, req.Rollout) THEN rolloutResult(id, req)
    ELSE IF Compare(cur, SemVer(req.Minimum).ver) < 0 THEN belowMinimum(req)
    ELSE rolloutResult(id, req)

\* ShouldUpdateVersion that takes a minimum it cannot parse for no minimum.
ShouldUpdateVersionLenient(cur, id, req) ==
    IF SemVer(req.Suggested).err # "" THEN parseFailed(SemVer(req.Suggested).err)
    ELSE IF Compare(cur, SemVer(req.Suggested).ver) >= 0 THEN upToDate
    ELSE IF SemVer(req.Minimum).err # "" THEN rolloutResult(id, req)
    ELSE IF Compare(cur, SemVer(req.Minimum).ver) < 0 THEN belowMinimum(req)
    ELSE rolloutResult(id, req)

\* ShouldUpdateVersion that takes only a current version above the suggested
\* one for up to date: a candidate running the suggested version is told to
\* update to it.
ShouldUpdateVersionEager(cur, id, req) ==
    IF SemVer(req.Suggested).err # "" THEN parseFailed(SemVer(req.Suggested).err)
    ELSE IF Compare(cur, SemVer(req.Suggested).ver) > 0 THEN upToDate
    ELSE IF SemVer(req.Minimum).err # "" THEN parseFailed(SemVer(req.Minimum).err)
    ELSE IF Compare(cur, SemVer(req.Minimum).ver) < 0 THEN belowMinimum(req)
    ELSE rolloutResult(id, req)

\* func ShouldUpdateVersion(currentVersion SemVer, nodeID storj.NodeID,
\*     requested Process) (updateVersion Version, reason string, err error)
ShouldUpdateVersion(cur, id, req) ==
    IF SemVer(req.Suggested).err # ""
    THEN [updateVersion |-> emptyVersion, reason |-> "", err |-> SemVer(req.Suggested).err]
    ELSE IF Compare(cur, SemVer(req.Suggested).ver) >= 0
    THEN [updateVersion |-> emptyVersion, reason |-> "Version is up to date", err |-> ""]
    ELSE IF SemVer(req.Minimum).err # ""
    THEN [updateVersion |-> emptyVersion, reason |-> "", err |-> SemVer(req.Minimum).err]
    ELSE IF Compare(cur, SemVer(req.Minimum).ver) < 0
    THEN [updateVersion |-> req.Minimum,
          reason |-> "Version is below minimum allowed", err |-> ""]
    ELSE IF isRolloutCandidate(id, req.Rollout)
    THEN [updateVersion |-> req.Suggested,
          reason |-> "New version is being rolled out and this node is a candidate",
          err |-> ""]
    ELSE [updateVersion |-> emptyVersion,
          reason |-> "New version is being rolled out but hasn't made it to this node yet",
          err |-> ""]

---------------------------------------------------------------------------
(* Bounds and the values the specifications draw their arguments from *)

\* ShouldUpdate is called at most this many times in a run.
MaxCalls == 2

\* The node identities are 1..NumNodes (a storj.NodeID is opaque here: it is
\* only ever hashed).
NumNodes == 1

\* The float64 percentages drawn include every k/10000 and (k + 0.7)/10000
\* for k in 0..MaxTenThousandths.
MaxTenThousandths == 17

\* RolloutBytes values: zero, 2 (last byte only), 2^248 (first byte only),
\* a value with every byte different from 0 and 255 at both ends, and max.
lowBytes == [i \in 1..RolloutLen |-> IF i = RolloutLen THEN 2 ELSE 0]
highBytes == [i \in 1..RolloutLen |-> IF i = 1 THEN 1 ELSE 0]
mixedBytes == [i \in 1..RolloutLen |-> (i * 37 + 134) % 256]

RolloutSamples == {zeroRolloutBytes, lowBytes, highBytes, maxBytes}

SeedSamples == {zeroRolloutBytes, mixedBytes}

NodeIDs == 1..NumNodes

\* Version strings: v1.0.0, v1.1.0, v2.0.0, 1.1.0-rc (a prerelease of 1.1.0,
\* without the v), and two that do not parse: the empty string and v1.x.
VersionTexts ==
    { <<"v", "1", ".", "0", ".", "0">>,
      <<"v", "1", ".", "1", ".", "0">>,
      <<"v", "2", ".", "0", ".", "0">>,
      <<"1", ".", "1", ".", "0", "-", "r", "c">>,
      <<>>,
      <<"v", "1", ".", "x">> }

\* The running version is a parsed SemVer.
CurrentVersions == {NewSemVer(t).ver : t \in {u \in VersionTexts : NewSemVer(u).err = ""}}

Processes ==
    { [Minimum |-> [Version |-> m, URL |-> "minimum-url"],
       Suggested |-> [Version |-> g, URL |-> "suggested-url"],
       Rollout |-> [Seed |-> sd, Cursor |-> c]] :
      m \in VersionTexts, g \in VersionTexts, sd \in SeedSamples, c \in RolloutSamples }

---------------------------------------------------------------------------
(* Spec: ShouldUpdateVersion and ShouldUpdate on drawn arguments *)

cursorIdle == pct = <<0, 0>> /\ cursor = <<>> /\ mapped = ""

codecIdle ==
    /\ rb = zeroRolloutBytes /\ value = zeroRolloutBytes /\ encoded = <<>>
    /\ b = <<>> /\ decodeErr = "" /\ panicked = FALSE /\ stage = "start"

decisionIdle ==
    /\ currentVersion = zeroSemVer /\ nodeID = 0 /\ requested = emptyVersion
    /\ hmacSum = <<>> /\ updateVersion = emptyVersion /\ reason = "" /\ err = ""
    /\ returned = FALSE /\ candidates = <<>>

formatIdle ==
    /\ receiver = zeroSemVer /\ formatted = <<>> /\ reparsed = zeroSemVer
    /\ reparseErr = "" /\ phase = "start"

Init ==
    /\ currentVersion \in CurrentVersions
    /\ nodeID \in NodeIDs
    /\ requested \in Processes
    /\ hmacSum \in [{<<requested.Rollout.Seed, nodeID>>} -> RolloutSamples]
    /\ updateVersion = emptyVersion /\ reason = "" /\ err = ""
    /\ returned = FALSE
    /\ candidates = <<>>
    /\ cursorIdle /\ codecIdle /\ formatIdle

\* updateVersion, reason, err := ShouldUpdateVersion(currentVersion, nodeID, requested)
CallShouldUpdateVersion ==
    /\ ~returned
    /\ LET r == ShouldUpdateVersion(currentVersion, nodeID, requested)
       IN  /\ updateVersion' = r.updateVersion
           /\ reason' = r.reason
           /\ err' = r.err
    /\ returned' = TRUE
    /\ UNCHANGED <<currentVersion, nodeID, requested, hmacSum, candidates>>
    /\ UNCHANGED <<cursorVars, codecVars, formatVars>>

\* ShouldUpdate(requested.Rollout, nodeID), called again with the same arguments
CallShouldUpdate ==
    /\ Len(candidates) < MaxCalls
    /\ candidates' = Append(candidates, ShouldUpdate(requested.Rollout, nodeID))
    /\ UNCHANGED <<currentVersion, nodeID, requested, hmacSum, updateVersion,
                   reason, err, returned>>
    /\ UNCHANGED <<cursorVars, codecVars, formatVars>>

Next == CallShouldUpdateVersion \/ CallShouldUpdate

Spec == Init /\ [][Next]_vars

---------------------------------------------------------------------------
(* SpecCursor: the percentage mappings on a drawn pair of percentages *)

\* Percentages in units of 0.00001: k/10000 and (k + 0.7)/10000 for small k;
\* -50, -1, -0.00007; 0.3906 and 0.3907; 1, 2, 50, 99, 100; 100.0001, 101, 200.
PctSamples ==
    {10 * k : k \in 0..MaxTenThousandths} \cup {10 * k + 7 : k \in 0..MaxTenThousandths}
    \cup {-5000000, -100000, -7, 39060, 39070, 100000, 200000, 5000000,
          9900000, 10000000, 10000010, 10100000, 20000000}

\* A percentage that is a whole number can be given to PercentageToCursor(pct int).
isWhole(u) == u % 100000 = 0

wholePart(u) == u \div 100000

InitCursor ==
    /\ pct \in {pq \in PctSamples \X PctSamples : pq[1] <= pq[2]}
    /\ cursor = <<>>
    /\ mapped = ""
    /\ decisionIdle /\ codecIdle /\ formatIdle

\* cursor := PercentageToCursorF(p), PercentageToCursorF(q)
CallPercentageToCursorF ==
    /\ mapped = ""
    /\ cursor' = <<PercentageToCursorF(pct[1]), PercentageToCursorF(pct[2])>>
    /\ mapped' = "PercentageToCursorF"
    /\ UNCHANGED <<pct, decisionVars, codecVars, formatVars>>

\* cursor := PercentageToCursor(p), PercentageToCursor(q)
CallPercentageToCursor ==
    /\ mapped = ""
    /\ isWhole(pct[1]) /\ isWhole(pct[2])
    /\ cursor' = <<PercentageToCursor(wholePart(pct[1])),
                   PercentageToCursor(wholePart(pct[2]))>>
    /\ mapped' = "PercentageToCursor"
    /\ UNCHANGED <<pct, decisionVars, codecVars, formatVars>>

NextCursor == CallPercentageToCursorF \/ CallPercentageToCursor

SpecCursor == InitCursor /\ [][NextCursor]_vars

---------------------------------------------------------------------------
(* SpecCodec: a RolloutBytes variable, fresh at first, that JSON texts are *)
(* unmarshalled into, and values that are marshalled.  A panic ends the    *)
(* run.                                                                    *)

upper(c) ==
    CASE c = "a" -> "A" [] c = "b" -> "B" [] c = "c" -> "C"
      [] c = "d" -> "D" [] c = "e" -> "E" [] c = "f" -> "F"
      [] OTHER -> c

quoted(t) == <<quote>> \o t \o <<quote>>

\* The JSON texts given to UnmarshalJSON besides what MarshalJSON returned.
JSONTexts ==
    { quoted(<<>>),                                        \* ""
      quoted(<<"a", "b">>),                                \* one byte
      quoted(<<"a", "b", "c">>),                           \* odd length
      quoted(<<"z", "z">>),                                \* no hex
      quoted(<<"a", "b", "z", "z">>),                      \* no hex after one byte
      quoted([i \in 1..(2 * RolloutLen) |-> upper(hexEncode(mixedBytes)[i])]),
      quoted(hexEncode(highBytes) \o <<"0", "1">>),        \* 33 bytes
      quoted(hexEncode(highBytes) \o <<"z", "z">>),        \* 32 bytes, then no hex
      quoted(hexEncode(highBytes) \o <<"a">>),             \* 32 bytes and a half
      <<"n", "u", "l", "l">>,                              \* JSON null
      <<"1">> }                                            \* a JSON number

CodecSamples == RolloutSamples \cup {mixedBytes}

InitCodec ==
    /\ rb = zeroRolloutBytes
    /\ value = zeroRolloutBytes
    /\ encoded = <<>>
    /\ b = <<>>
    /\ decodeErr = ""
    /\ panicked = FALSE
    /\ stage = "start"
    /\ decisionIdle /\ cursorIdle /\ formatIdle

\* encoded, _ := v.MarshalJSON()
CallMarshalJSON ==
    /\ ~panicked
    /\ \E v \in CodecSamples :
        /\ value' = v
        /\ encoded' = MarshalJSON(v)
    /\ stage' = "marshalled"
    /\ UNCHANGED <<rb, b, decodeErr, panicked, decisionVars, cursorVars, formatVars>>

\* err := rb.UnmarshalJSON(txt)
unmarshalInto(txt) ==
    /\ rb' = UnmarshalJSON(rb, txt).dst
    /\ decodeErr' = UnmarshalJSON(rb, txt).err
    /\ panicked' = UnmarshalJSON(rb, txt).panic
    /\ b' = txt

\* err := rb.UnmarshalJSON(encoded), right after encoded was marshalled
CallUnmarshalEncoded ==
    /\ ~panicked
    /\ stage = "marshalled"
    /\ unmarshalInto(encoded)
    /\ stage' = "roundtrip"
    /\ UNCHANGED <<value, encoded, decisionVars, cursorVars, formatVars>>

\* err := rb.UnmarshalJSON(t) for some other text
CallUnmarshalJSON ==
    /\ ~panicked
    /\ \E t \in JSONTexts : unmarshalInto(t)
    /\ stage' = "unmarshalled"
    /\ UNCHANGED <<value, encoded, decisionVars, cursorVars, formatVars>>

NextCodec == CallMarshalJSON \/ CallUnmarshalEncoded \/ CallUnmarshalJSON

SpecCodec == InitCodec /\ [][NextCodec]_vars

---------------------------------------------------------------------------
(* SpecFormat: String on a parsed SemVer, then NewSemVer on what it gave *)

\* A version text has at most this many prerelease identifiers.
MaxPre == 2

\* Prerelease identifiers: a word, a number, and a word with a hyphen in it.
PreTexts == { <<"r", "c">>, <<"1">>, <<"x", "-", "y">> }

\* Major, minor and patch numbers as written in a version text.
NumberTexts == { <<"0">>, <<"3">>, <<"1", "2">> }

\* The sequences of up to n prerelease identifiers.
RECURSIVE preSequences(_)
preSequences(n) ==
    IF n = 0 THEN {<<>>}
    ELSE preSequences(n - 1)
         \cup {Append(ids, t) : ids \in {q \in preSequences(n - 1) : Len(q) = n - 1},
                                t \in PreTexts}

\* The text MAJOR.MINOR.PATCH, with -ID.ID... after it when there are
\* prerelease identifiers: what semver.Parse reads a Version from.
versionText(major, minor, patch, ids) ==
    major \o <<".">> \o minor \o <<".">> \o patch
          \o (IF ids = <<>> THEN <<>> ELSE <<"-">> \o Join(ids, <<".">>))

\* Version texts with every prerelease sequence; the patch number is 0.
SemVerTexts ==
    { versionText(major, minor, <<"0">>, ids) :
        major \in NumberTexts, minor \in {<<"0">>, <<"1", "0">>},
        ids \in preSequences(MaxPre) }

\* The SemVer values String is called on: those NewSemVer gives for the texts.
SemVers == {NewSemVer(t).ver : t \in {u \in SemVerTexts : NewSemVer(u).err = ""}}

InitFormat ==
    /\ receiver \in SemVers
    /\ formatted = <<>>
    /\ reparsed = zeroSemVer
    /\ reparseErr = ""
    /\ phase = "start"
    /\ decisionIdle /\ cursorIdle /\ codecIdle

\* formatted := receiver.String()
CallString ==
    /\ phase = "start"
    /\ formatted' = String(receiver)
    /\ phase' = "formatted"
    /\ UNCHANGED <<receiver, reparsed, reparseErr, decisionVars, cursorVars, codecVars>>

\* reparsed, reparseErr := NewSemVer(formatted)
CallNewSemVer ==
    /\ phase = "formatted"
    /\ reparsed' = NewSemVer(formatted).ver
    /\ reparseErr' = NewSemVer(formatted).err
    /\ phase' = "reparsed"
    /\ UNCHANGED <<receiver, formatted, decisionVars, cursorVars, codecVars>>

NextFormat == CallString \/ CallNewSemVer

SpecFormat == InitFormat /\ [][NextFormat]_vars

---------------------------------------------------------------------------
(* Notions the properties are stated in *)

\* x <= y for two byte arrays of one length read as big-endian unsigned
\* integers: the subtraction y - x, done from the last byte, leaves no borrow.
RECURSIVE borrowFrom(_, _, _, _)
borrowFrom(x, y, i, borrow) ==
    IF i = 0 THEN borrow
    ELSE borrowFrom(x, y, i - 1, IF y[i] - x[i] - borrow < 0 THEN 1 ELSE 0)

uintLeq(x, y) == borrowFrom(x, y, Len(x), 0) = 0

\* The digest of the run's node under the run's seed, and whether it is at
\* or below the cursor.
digest == hmacSum[<<requested.Rollout.Seed, nodeID>>]

digestInRollout == uintLeq(digest, requested.Rollout.Cursor)

minimumParses == NewSemVer(requested.Minimum.Version).err = ""
suggestedParses == NewSemVer(requested.Suggested.Version).err = ""

minimumVersion == NewSemVer(requested.Minimum.Version).ver
suggestedVersion == NewSemVer(requested.Suggested.Version).ver

belowSuggested == Compare(currentVersion, suggestedVersion) < 0
belowMinimumVersion == Compare(currentVersion, minimumVersion) < 0

---------------------------------------------------------------------------
(* Properties of Spec *)

\* C1: with a minimum and a suggested version that parse, ShouldUpdateVersion
\* returns, without error: no update when current >= suggested; otherwise
\* requested.Minimum when current < minimum; otherwise requested.Suggested
\* when the node's digest is within the cursor and no update when it is not.
\* The first step that matches decides.
C1_DecisionOrder ==
    (returned /\ minimumParses /\ suggestedParses) =>
        /\ err = ""
        /\ updateVersion =
              IF ~belowSuggested THEN emptyVersion
              ELSE IF belowMinimumVersion THEN requested.Minimum
              ELSE IF digestInRollout THEN requested.Suggested
              ELSE emptyVersion
        /\ reason # ""

\* C1 witness: steps (1) and (2) both match (current >= suggested and
\* current < minimum) and step (1) has decided.
C1_Witness ==
    /\ returned /\ minimumParses /\ suggestedParses
    /\ ~belowSuggested /\ belowMinimumVersion
    /\ updateVersion = emptyVersion /\ reason = "Version is up to date"

\* C2 as stated: whenever current < minimum, ShouldUpdateVersion returns
\* requested.Minimum, whatever the suggested version is.
C2_BelowMinimumAlwaysUpdates ==
    (returned /\ minimumParses /\ suggestedParses /\ belowMinimumVersion) =>
        updateVersion = requested.Minimum

\* C2 amended: whenever current < minimum and current < suggested,
\* ShouldUpdateVersion returns requested.Minimum without error, whatever the
\* rollout seed and cursor are.
C2_BelowMinimumOverridesRollout ==
    (returned /\ minimumParses /\ suggestedParses
        /\ belowMinimumVersion /\ belowSuggested) =>
        /\ updateVersion = requested.Minimum
        /\ reason = "Version is below minimum allowed"
        /\ err = ""

\* C2 witness: a node below the minimum whose digest is outside the cursor
\* has been told to update to the minimum.
C2_Witness ==
    /\ returned /\ minimumParses /\ suggestedParses
    /\ belowMinimumVersion /\ belowSuggested
    /\ ~digestInRollout
    /\ updateVersion = requested.Minimum

\* C3 as stated: if the minimum or the suggested version does not parse,
\* ShouldUpdateVersion returns an error; and an error comes with an empty
\* Version and an empty reason.
C3_AnyParseErrorAborts ==
    returned =>
        /\ (~minimumParses \/ ~suggestedParses) => err # ""
        /\ err # "" => (updateVersion = emptyVersion /\ reason = "")

\* C3 amended: a suggested version that does not parse aborts with its parse
\* error; a minimum that does not parse aborts with its parse error when the
\* suggested version parses and current < suggested (for current >= suggested
\* the minimum is never parsed and the answer is no update); there is no
\* other error; and an error comes with an empty Version and an empty reason.
C3_ParseErrorAborts ==
    returned =>
        /\ ~suggestedParses => err = NewSemVer(requested.Suggested.Version).err
        /\ (suggestedParses /\ belowSuggested /\ ~minimumParses) =>
               err = NewSemVer(requested.Minimum.Version).err
        /\ (suggestedParses /\ ~belowSuggested) => err = ""
        /\ (suggestedParses /\ minimumParses) => err = ""
        /\ err # "" => (updateVersion = emptyVersion /\ reason = "")

\* C3 witness: the minimum does not parse, the suggested version does and is
\* above the current one, and the call has returned the error alone.
C3_Witness ==
    /\ returned /\ suggestedParses /\ belowSuggested /\ ~minimumParses
    /\ err # "" /\ updateVersion = emptyVersion /\ reason = ""

\* C4: every call of ShouldUpdate returns whether the digest of the node
\* under the seed, as a big-endian unsigned integer, is at most the cursor
\* (equal counts), and all calls with the same arguments return the same.
C4_CandidateIffDigestWithinCursor ==
    /\ \A i \in 1..Len(candidates) : candidates[i] = digestInRollout
    /\ \A i, j \in 1..Len(candidates) : candidates[i] = candidates[j]

\* C4 witness: two calls have been made with a digest equal to a nonzero
\* cursor, and both said candidate.
C4_Witness ==
    /\ Len(candidates) >= 2
    /\ digest = requested.Rollout.Cursor
    /\ digest # zeroRolloutBytes
    /\ candidates[1] /\ candidates[2]

\* C5 as stated: under an all-zero cursor no call of ShouldUpdate says
\* candidate, whatever the digest, and a node with
\* minimum <= current < suggested gets no update.
C5_ZeroCursorNoCandidate ==
    requested.Rollout.Cursor = zeroRolloutBytes =>
        /\ \A i \in 1..Len(candidates) : ~candidates[i]
        /\ (returned /\ minimumParses /\ suggestedParses
                /\ ~belowMinimumVersion /\ belowSuggested) =>
               updateVersion = emptyVersion

\* C12: whenever ShouldUpdateVersion returns a Version other than Version{}
\* without error, that Version is requested.Minimum or requested.Suggested,
\* its version text parses, and the parsed version is strictly greater than
\* currentVersion: never a downgrade, never the version already running.
\* This holds for every requirement, a minimum above the suggested version
\* included, and for every rollout.
C12_NeverDowngradeOrNoOp ==
    (returned /\ err = "" /\ updateVersion # emptyVersion) =>
        /\ updateVersion \in {requested.Minimum, requested.Suggested}
        /\ SemVer(updateVersion).err = ""
        /\ Compare(SemVer(updateVersion).ver, currentVersion) > 0

\* C12 witness: the minimum is above the suggested version, the current
\* version is below both, and the call has returned requested.Minimum.
C12_Witness ==
    /\ returned /\ err = "" /\ minimumParses /\ suggestedParses
    /\ Compare(minimumVersion, suggestedVersion) > 0
    /\ belowSuggested
    /\ updateVersion = requested.Minimum
    /\ updateVersion # emptyVersion

---------------------------------------------------------------------------
(* Properties of SpecCursor *)

\* round(pct*10000), halves away from zero.
roundTenThousandths(u) == IF u >= 0 THEN (u + 5) \div 10 ELSE -((5 - u) \div 10)

\* A magnitude of at most RolloutLen bytes placed right-aligned in RolloutLen bytes.
rightAligned(ds) ==
    [i \in 1..RolloutLen |->
        IF i > RolloutLen - Len(ds) THEN ds[i - (RolloutLen - Len(ds))] ELSE 0]

\* floor((MAX * n) / 1_000_000) as a cursor, MAX = 2^256 - 1, 0 <= n <= 1_000_000.
preciseCursor(n) ==
    rightAligned(natNorm(natDivRem(natMulAdd(maxBytes, n, 0), 1000000, 0).quo))

\* MAX - c as a magnitude: no byte of MAX borrows.
belowMax(c) == natNorm([i \in 1..RolloutLen |-> 255 - c[i]])

\* The value of a magnitude of at most three bytes.
RECURSIVE smallValue(_)
smallValue(ds) ==
    IF ds = <<>> THEN 0 ELSE smallValue(SubSeq(ds, 1, Len(ds) - 1)) * 256 + ds[Len(ds)]

\* MAX - c < tol, for tol <= 2^24.
withinOfMax(c, tol) == Len(belowMax(c)) <= 3 /\ smallValue(belowMax(c)) < tol

\* C6 as stated: for pct in [0, 100], PercentageToCursorF(pct) is
\* floor((MAX * round(pct*10000)) / 1_000_000) right-aligned in the 32 bytes.
C6_PreciseFormula ==
    (mapped = "PercentageToCursorF" /\ pct[1] >= 0 /\ pct[1] <= 10000000) =>
        cursor[1] = preciseCursor(roundTenThousandths(pct[1]))

\* C7 as stated, for percentages within [0, 100]: both mappings are
\* monotonic: p <= q gives mapping(p) <= mapping(q) as big-endian unsigned
\* integers.
C7_Monotonic ==
    (mapped # "" /\ 0 <= pct[1] /\ pct[1] <= pct[2] /\ pct[2] <= 10000000) =>
        uintLeq(cursor[1], cursor[2])

\* C8 as stated: every pct <= 0 maps to the all-zero cursor, and every
\* pct >= 100 maps to a cursor within 1_000_000 (PercentageToCursorF) or 100
\* (PercentageToCursor) of MAX.
C8_EdgePolicy ==
    mapped # "" =>
        /\ pct[1] <= 0 => cursor[1] = zeroRolloutBytes
        /\ pct[1] >= 10000000 =>
               withinOfMax(cursor[1],
                           IF mapped = "PercentageToCursorF" THEN 1000000 ELSE 100)

---------------------------------------------------------------------------
(* Properties of SpecCodec *)

\* The text between the first and the last character of b.
unquoted == SubSeq(b, 2, Len(b) - 1)

isHexText(t) == \A i \in 1..Len(t) : fromHexChar(t[i]) >= 0

unmarshalReturned == stage \in {"roundtrip", "unmarshalled"}

\* C9 as stated: unmarshalling what MarshalJSON returned for c yields c; the
\* all-zero cursor marshals to ""; and unmarshalling "" yields the all-zero
\* cursor whatever the receiver held.
C9_RoundTrip ==
    /\ stage = "roundtrip" => (rb = value /\ decodeErr = "" /\ ~panicked)
    /\ (stage \in {"marshalled", "roundtrip"} /\ value = zeroRolloutBytes) =>
           encoded = <<quote, quote>>
    /\ (unmarshalReturned /\ b = <<quote, quote>>) => rb = zeroRolloutBytes

\* C10 as stated: UnmarshalJSON returns an error, and does not panic, for
\* every non-empty text that is not hex or does not decode to exactly 32
\* bytes.
C10_MalformedRejected ==
    (unmarshalReturned /\ Len(b) > 2
        /\ (~isHexText(unquoted) \/ Len(unquoted) # 2 * RolloutLen)) =>
        (decodeErr # "" /\ ~panicked)

---------------------------------------------------------------------------
(* Properties of SpecFormat *)

\* vMAJOR.MINOR.PATCH, followed by - and the prerelease identifiers joined
\* with dots when there are any.
dotJoined(v) ==
    stringBase(v)
    \o (IF v.Pre = <<>> THEN <<>>
        ELSE <<"-">> \o Join([i \in 1..Len(v.Pre) |-> prString(v.Pre[i])], <<".">>))

\* C11: for every valid version, with any number of prerelease identifiers,
\* String gives vMAJOR.MINOR.PATCH followed by - and the dot-joined
\* prerelease identifiers when there are any, and NewSemVer of that text
\* succeeds and gives the version back.
C11_FormatParseRoundTrip ==
    phase = "reparsed" =>
        /\ formatted = dotJoined(receiver)
        /\ reparseErr = ""
        /\ reparsed = receiver

====
